---- MODULE Spec2Model ----
(***************************************************************************)
(* find_growth_stocks.py: the growth screen.                               *)
(*                                                                         *)
(* main() walks the fundamentals directory; for each symbol it reads the   *)
(* fundamentals table and the market-cap table, calls get_annual_growth,   *)
(* applies the absolute floors and the growth thresholds, reads the latest *)
(* market cap and appends a row to `results`; after the loop it sorts the  *)
(* rows by market cap and prints the first num_result of them.             *)
(*                                                                         *)
(* Numbers.  A table cell is a float, a NaN (an empty csv cell) or a text  *)
(* (pandas keeps a column holding one non-numeric token as strings).       *)
(* Revenues and margins are drawn from values that divide 100, so that     *)
(* 100 * (curr - prev) / abs(prev) is an exact integer both in the float   *)
(* arithmetic of the program and in the integer arithmetic used here.      *)
(*                                                                         *)
(* Dates.  A fundamentals row is dated by its quarter end; dates are       *)
(* counted in quarters, so that dt.year is date \div 4 and dt.quarter is   *)
(* date % 4 + 1.                                                           *)
(***************************************************************************)
EXTENDS Integers, Sequences, FiniteSets, TLC

VARIABLES
    args,       \* the parsed command line (parse_args)
    i,          \* position in os.listdir(fs_dir): the symbol being handled
    pc,         \* "read" | "processed" | "done" | "crashed"
    fs_df,      \* rows of the current symbol's fundamentals csv read so far
    ms_kind,    \* what main found at ms_file for the current symbol
    growth,     \* what get_annual_growth gave for the current symbol
    reason,     \* the line main printed for the current symbol
    results,    \* main's `results` list
    skipped,    \* the symbols main printed a "Skipping" line for
    out         \* the rows of the table printed at the end

vars == <<args, i, pc, fs_df, ms_kind, growth, reason, results, skipped, out>>

----------------------------------------------------------------------------
(* Cells *)

Float(n) == [t |-> "float", v |-> n]
NaN == [t |-> "nan", v |-> 0]
Str == [t |-> "str", v |-> 0]

\* pd.notna on a scalar
notna(x) == x.t # "nan"

\* x < y on floats: every comparison with NaN is False
lt(x, y) == x.t = "float" /\ y.t = "float" /\ x.v < y.v

abs(n) == IF n < 0 THEN -n ELSE n

----------------------------------------------------------------------------
(* Bounds of the model *)

\* symbols in the fundamentals directory
NumSymbols == 2

\* rows of one fundamentals csv
MaxRecords == 4

\* length of the collections the ranking is checked on directly
MaxRanked == 3

\* quarter-end dates of the fundamentals: quarters 1 and 2 of year 0 and of year 1
Dates == {0, 1, 4, 5}

\* rows (revenue, op_margin) of a fundamentals csv in the screening runs: the
\* rows of year 1 are the anchors, those of year 0 their year-ago rows
CurrentDates == {4, 5}
PriorDates == {0, 1}
CurrentFilings ==
    { <<Float(2), Float(2)>>, <<Float(1), Float(2)>>, <<Float(2), Float(-1)>>,
      <<NaN, Float(2)>> }
PriorFilings ==
    { <<Float(1), Float(1)>>, <<Float(1), Float(-1)>>, <<NaN, Float(1)>> }
ScreenRows ==
    { [date |-> d, revenue |-> f[1], op_margin |-> f[2]] :
          d \in CurrentDates, f \in CurrentFilings }
    \cup { [date |-> d, revenue |-> f[1], op_margin |-> f[2]] :
               d \in PriorDates, f \in PriorFilings }

\* rows of a fundamentals csv in the runs on one symbol: any filing at any date
Filings ==
    { <<Float(2), Float(2)>>, <<Float(1), Float(1)>>, <<NaN, Float(1)>>,
      <<Float(1), Float(-1)>>, <<Float(0), Float(0)>> }
FsRows ==
    { [date |-> d, revenue |-> f[1], op_margin |-> f[2]] : d \in Dates, f \in Filings }

MsDates == {1, 2}
Caps == {Float(1), Float(2), NaN, Str}
MsRows == [date : MsDates, market_cap : Caps]

\* --pergro_revenue / --pergro_op_margin: the growths of the filings are -100, -50,
\* 0 and 100
Pergros == {0, 100}
\* --revenue_limit, --op_margin_limit
RevenueLimits == {2}
OpMarginLimits == {1}
\* --num_result (argparse type=int: any integer is taken)
NumResults == {1}

----------------------------------------------------------------------------
(* get_annual_growth *)

QuartersPerYear == 4
required_quarters == 2

year(d) == d \div QuartersPerYear
quarter(d) == (d % QuartersPerYear) + 1

\* the (year, quarter) index entry of a row
index_key(r) == <<year(r.date), quarter(r.date)>>

\* df.sort_values("날짜", ascending=False): rows of equal date come in an order the
\* sort does not fix; they share their (year, quarter), the only thing read from
\* recent_rows, so any order of them gives the same anchors.
RECURSIVE sort_values(_)
sort_values(df) ==
    IF df = {} THEN <<>>
    ELSE LET r == CHOOSE x \in df : \A y \in df : y.date <= x.date
         IN  <<r>> \o sort_values(df \ {r})

\* df.set_index(["year", "quarter"]): is the index unique
is_unique(df) == \A r, q \in df : index_key(r) = index_key(q) => r = q

\* loc resolving a repeated key to one of its rows
loc_single_record(df, k) ==
    LET rows == { r \in df : index_key(r) = k }
    IN  [found |-> rows # {}, frame |-> FALSE, rows |-> rows]

\* df.loc[key]: KeyError when no row has the key; on a unique index the row (a
\* Series); on an index with a repeated entry every lookup is a slice of the frame
loc(df, k) ==
    LET rows == { r \in df : index_key(r) = k }
    IN  [found |-> rows # {}, frame |-> ~is_unique(df), rows |-> rows]

the_row(l) == CHOOSE r \in l.rows : TRUE

\* line 59: both revenues present and the prior one not 0
revenue_usable(curr, prev) ==
    notna(curr.revenue) /\ notna(prev.revenue) /\ prev.revenue.v # 0

\* the margin condition nested under the revenue condition
op_margin_usable_nested(curr, prev) ==
    /\ notna(curr.revenue) /\ notna(prev.revenue) /\ prev.revenue.v # 0
    /\ notna(curr.op_margin) /\ notna(prev.op_margin)
    /\ curr.op_margin.v > 0 /\ prev.op_margin.v > 0

\* lines 63-66: both margins present and strictly positive
op_margin_usable(curr, prev) ==
    /\ notna(curr.op_margin) /\ notna(prev.op_margin)
    /\ curr.op_margin.v > 0 /\ prev.op_margin.v > 0

\* lines 60 and 67
growth_pct(curr, prev) == (100 * (curr - prev)) \div abs(prev)

NoData ==
    [kind |-> "nodata", rev_growths |-> <<>>, opm_growths |-> <<>>,
     revenue |-> NaN, op_margin |-> NaN]
NotCalled == [NoData EXCEPT !.kind = "notcalled"]
Raised == [NoData EXCEPT !.kind = "ValueError"]

\* anchor_step going on to the next anchor when a key is absent
anchor_step_continue(df, recent_rows, n, acc) ==
    LET row == recent_rows[n + 1]
        curr_q == index_key(row)
        prev_q == <<curr_q[1] - 1, curr_q[2]>>
        currl == loc(df, curr_q)
        prevl == loc(df, prev_q)
    IN  IF ~currl.found \/ ~prevl.found THEN acc
        ELSE IF currl.frame \/ prevl.frame THEN Raised         \* bool() of a Series
        ELSE LET curr == the_row(currl)
                 prev == the_row(prevl)
                 a1 == IF n = 0
                       THEN [acc EXCEPT !.revenue = curr.revenue,
                                        !.op_margin = curr.op_margin]
                       ELSE acc
                 a2 == IF revenue_usable(curr, prev)
                       THEN [a1 EXCEPT !.rev_growths =
                               Append(@, growth_pct(curr.revenue.v, prev.revenue.v))]
                       ELSE a1
             IN  IF op_margin_usable(curr, prev)
                 THEN [a2 EXCEPT !.opm_growths =
                         Append(@, growth_pct(curr.op_margin.v, prev.op_margin.v))]
                 ELSE a2

\* one pass of the loop of lines 46-71 on the accumulated result acc
anchor_step(df, recent_rows, n, acc) ==
    LET row == recent_rows[n + 1]
        curr_q == index_key(row)
        prev_q == <<curr_q[1] - 1, curr_q[2]>>
        currl == loc(df, curr_q)
        prevl == loc(df, prev_q)
    IN  IF ~currl.found \/ ~prevl.found THEN NoData            \* KeyError, line 70
        ELSE IF currl.frame \/ prevl.frame THEN Raised         \* bool() of a Series
        ELSE LET curr == the_row(currl)
                 prev == the_row(prevl)
                 a1 == IF n = 0
                       THEN [acc EXCEPT !.revenue = curr.revenue,
                                        !.op_margin = curr.op_margin]
                       ELSE acc
                 a2 == IF revenue_usable(curr, prev)
                       THEN [a1 EXCEPT !.rev_growths =
                               Append(@, growth_pct(curr.revenue.v, prev.revenue.v))]
                       ELSE a1
             IN  IF op_margin_usable(curr, prev)
                 THEN [a2 EXCEPT !.opm_growths =
                         Append(@, growth_pct(curr.op_margin.v, prev.op_margin.v))]
                 ELSE a2

RECURSIVE anchor_loop(_, _, _, _)
anchor_loop(df, recent_rows, n, acc) ==
    IF n = required_quarters THEN acc
    ELSE LET nxt == anchor_step(df, recent_rows, n, acc)
         IN  IF nxt.kind # "result" THEN nxt
             ELSE anchor_loop(df, recent_rows, n + 1, nxt)

get_annual_growth(df) ==
    IF Cardinality(df) < required_quarters THEN NoData
    ELSE anchor_loop(df, SubSeq(sort_values(df), 1, required_quarters), 0,
                     [NoData EXCEPT !.kind = "result"])

----------------------------------------------------------------------------
(* get_latest_market_cap, fmt *)

\* df.sort_values("날짜", ascending=False).iloc[0]["market_cap"]: the market cap of
\* a row of the latest date (rows of equal date: whichever the sort puts first)
get_latest_market_cap(df) ==
    { r.market_cap : r \in { x \in df : \A y \in df : y.date <= x.date } }

\* f"{val:.2f}" if not math.isnan(val) else "NaN"
fmt(val) == IF val.t = "nan" THEN "NaN" ELSE ToString(val.v) \o ".00"

\* f"{mcap:>15,.1f}" of a float
fmt_mcap(mcap) == IF mcap.t = "nan" THEN "nan" ELSE ToString(mcap.v) \o ".0"

----------------------------------------------------------------------------
(* main: the body of the loop *)

\* a Python list in a boolean context
truthy(l) == Len(l) > 0

\* rev_ok without the test of the length
rev_ok_any_length(rev_growths, a) ==
    /\ truthy(rev_growths)
    /\ \A k \in 1..Len(rev_growths) : rev_growths[k] > a.pergro_revenue

\* line 127
rev_ok(rev_growths, a) ==
    /\ truthy(rev_growths)
    /\ Len(rev_growths) = 2
    /\ \A k \in 1..Len(rev_growths) : rev_growths[k] > a.pergro_revenue

\* opm_ok without the test of the length
opm_ok_any_length(opm_growths, a) ==
    /\ truthy(opm_growths)
    /\ \A k \in 1..Len(opm_growths) : opm_growths[k] > a.pergro_op_margin

\* line 128
opm_ok(opm_growths, a) ==
    /\ truthy(opm_growths)
    /\ Len(opm_growths) = 2
    /\ \A k \in 1..Len(opm_growths) : opm_growths[k] > a.pergro_op_margin

\* the revenue floor left out
revenue_floor_off(g, a) == FALSE

\* line 120
revenue_below_limit(g, a) == lt(g.revenue, Float(a.revenue_limit))

\* line 123
op_margin_below_limit(g, a) == lt(g.op_margin, Float(a.op_margin_limit))

\* growth_skip with a metric taken as available only when it has two entries
growth_skip_two_entries(rev_growths, opm_growths, a) ==
    IF Len(rev_growths) = 2 /\ Len(opm_growths) = 2
    THEN IF ~(rev_ok(rev_growths, a) /\ opm_ok(opm_growths, a))
         THEN "both metrics available but one or both failed thresholds"
         ELSE ""
    ELSE IF Len(rev_growths) = 2
    THEN IF ~rev_ok(rev_growths, a)
         THEN "only revenue available and failed threshold"
         ELSE ""
    ELSE IF Len(opm_growths) = 2
    THEN IF ~opm_ok(opm_growths, a)
         THEN "only op_margin available and failed threshold"
         ELSE ""
    ELSE "neither revenue nor op_margin growth data available"

\* lines 131-145: the line printed when the growth thresholds reject, "" when they pass
growth_skip(rev_growths, opm_growths, a) ==
    IF truthy(rev_growths) /\ truthy(opm_growths)
    THEN IF ~(rev_ok(rev_growths, a) /\ opm_ok(opm_growths, a))
         THEN "both metrics available but one or both failed thresholds"
         ELSE ""
    ELSE IF truthy(rev_growths)
    THEN IF ~rev_ok(rev_growths, a)
         THEN "only revenue available and failed threshold"
         ELSE ""
    ELSE IF truthy(opm_growths)
    THEN IF ~opm_ok(opm_growths, a)
         THEN "only op_margin available and failed threshold"
         ELSE ""
    ELSE "neither revenue nor op_margin growth data available"

\* lines 113-145: the line printed for a symbol whose tables were read, "" when
\* the symbol passes to the market-cap lookup
skip_line(g, a) ==
    IF g.kind = "ValueError" THEN "error during processing"
    ELSE IF g.kind = "nodata" THEN "insufficient financial data for comparison"
    ELSE IF revenue_below_limit(g, a) THEN "recent revenue < limit"
    ELSE IF op_margin_below_limit(g, a) THEN "recent op_margin < limit"
    ELSE growth_skip(g.rev_growths, g.opm_growths, a)

\* lines 149-152: growths[k] if growths and len(growths) > k else float("nan")
growth_cell(growths, k) ==
    IF truthy(growths) /\ Len(growths) > k THEN Float(growths[k + 1]) ELSE NaN

\* line 154
result_row(symbol, g, market_cap) ==
    [symbol |-> symbol,
     rev_g1 |-> growth_cell(g.rev_growths, 0), rev_g2 |-> growth_cell(g.rev_growths, 1),
     opm_g1 |-> growth_cell(g.opm_growths, 0), opm_g2 |-> growth_cell(g.opm_growths, 1),
     market_cap |-> market_cap]

----------------------------------------------------------------------------
(* results.sort(key=lambda x: x[-1]) and the printed table *)

\* The list has fewer than 64 entries: list.sort finds the run the list starts
\* with (count_run), reverses it when it is strictly descending, and inserts each
\* later entry into the sorted prefix by binary search (binarysort).

RECURSIVE descending_run(_, _)
descending_run(keys, n) ==
    IF n < Len(keys) /\ lt(keys[n + 1], keys[n]) THEN descending_run(keys, n + 1) ELSE n

RECURSIVE ascending_run(_, _)
ascending_run(keys, n) ==
    IF n < Len(keys) /\ ~lt(keys[n + 1], keys[n]) THEN ascending_run(keys, n + 1) ELSE n

count_run(keys) ==
    IF Len(keys) <= 1 THEN [n |-> Len(keys), descending |-> FALSE]
    ELSE IF lt(keys[2], keys[1])
    THEN [n |-> descending_run(keys, 2), descending |-> TRUE]
    ELSE [n |-> ascending_run(keys, 2), descending |-> FALSE]

reverse_slice(l, n) == [k \in 1..Len(l) |-> IF k <= n THEN l[n + 1 - k] ELSE l[k]]

\* the place where binarysort puts pivot among l[lo..hi-1]: right of its equals
RECURSIVE bisect(_, _, _, _)
bisect(l, pivot, lo, hi) ==
    IF lo < hi
    THEN LET p == lo + ((hi - lo) \div 2)
         IN  IF lt(pivot.market_cap, l[p].market_cap)
             THEN bisect(l, pivot, lo, p)
             ELSE bisect(l, pivot, p + 1, hi)
    ELSE lo

insert_at(l, start, at) ==
    [k \in 1..Len(l) |->
        IF k < at \/ k > start THEN l[k]
        ELSE IF k = at THEN l[start]
        ELSE l[k - 1]]

RECURSIVE binarysort(_, _)
binarysort(l, start) ==
    IF start > Len(l) THEN l
    ELSE binarysort(insert_at(l, start, bisect(l, l[start], 1, start)), start + 1)

list_sort(l) ==
    LET keys == [k \in 1..Len(l) |-> l[k].market_cap]
        run == count_run(keys)
        l1 == IF run.descending THEN reverse_slice(l, run.n) ELSE l
    IN  binarysort(l1, run.n + 1)

\* Every entry of a list of two or more is compared with another one, and the
\* compared pairs connect the list: a text among floats meets a float, and
\* '<' between a str and a float raises TypeError.
sort_raises(l) ==
    \E j, k \in 1..Len(l) : l[j].market_cap.t = "str" /\ l[k].market_cap.t # "str"

\* results[:num_result]
slice_to(l, n) ==
    IF n >= 0 THEN SubSeq(l, 1, IF n < Len(l) THEN n ELSE Len(l))
    ELSE SubSeq(l, 1, IF Len(l) + n > 0 THEN Len(l) + n ELSE 0)

\* line 164: one printed row; the float format of a str raises ValueError
print_raises(row) == row.market_cap.t = "str"

printed_row(row) ==
    [symbol |-> row.symbol,
     rev1 |-> fmt(row.rev_g1), rev2 |-> fmt(row.rev_g2),
     opm1 |-> fmt(row.opm_g1), opm2 |-> fmt(row.opm_g2),
     mcap |-> fmt_mcap(row.market_cap)]

\* the rows printed before the first row that cannot be printed
RECURSIVE printable_prefix(_)
printable_prefix(l) ==
    IF l = <<>> \/ print_raises(Head(l)) THEN <<>>
    ELSE <<printed_row(Head(l))>> \o printable_prefix(Tail(l))

----------------------------------------------------------------------------
(* The inputs *)

Configs ==
    [pergro_revenue : Pergros, pergro_op_margin : Pergros, num_result : NumResults,
     revenue_limit : RevenueLimits, op_margin_limit : OpMarginLimits]

\* the market-cap file of a symbol: absent, a file read_csv cannot read (no
\* columns), or a table of rows, one row a day
MsFiles ==
    { [kind |-> "missing", rows |-> {}], [kind |-> "unreadable", rows |-> {}] }
    \cup { [kind |-> "table", rows |-> t] :
             t \in { x \in SUBSET MsRows : \A r, q \in x : r.date = q.date => r = q } }

\* what main sees of a market-cap file: whether it is there and can be read, and
\* the market cap of its latest row
ms_view(ms) ==
    [kind |-> IF ms.kind = "table" /\ ms.rows = {} THEN "norows" ELSE ms.kind,
     latest |-> get_latest_market_cap(ms.rows)]
MsViews == { ms_view(ms) : ms \in MsFiles }

----------------------------------------------------------------------------
(* main *)

Init ==
    /\ args \in Configs
    /\ i = 1
    /\ pc = "read"
    /\ fs_df = {}
    /\ ms_kind = ""
    /\ growth = NotCalled
    /\ reason = ""
    /\ results = <<>>
    /\ skipped = {}
    /\ out = <<>>

\* pd.read_csv(fs_file), a row at a time; one filing per quarter
ReadRow ==
    /\ pc = "read"
    /\ Cardinality(fs_df) < MaxRecords
    /\ \E r \in ScreenRows :
         /\ \A q \in fs_df : q.date # r.date
         /\ fs_df' = fs_df \cup {r}
    /\ UNCHANGED <<args, i, pc, ms_kind, growth, reason, results, skipped, out>>

\* pd.read_csv(fs_file), a row at a time; a quarter may be filed more than once
ReadFiling ==
    /\ pc = "read"
    /\ Cardinality(fs_df) < MaxRecords
    /\ \E r \in FsRows \ fs_df : fs_df' = fs_df \cup {r}
    /\ UNCHANGED <<args, i, pc, ms_kind, growth, reason, results, skipped, out>>

\* read_skip without the test that the market-cap file exists
read_skip_no_exists(kind) ==
    IF kind = "unreadable" THEN "error during processing" ELSE ""

\* lines 104-110: the line printed when the market-cap file is absent or cannot
\* be read, "" when both tables were read
read_skip(kind) ==
    IF kind = "missing" THEN "market cap data not found"
    ELSE IF kind = "unreadable" THEN "error during processing"
    ELSE ""

\* lines 101-158: one pass of the loop, for the symbol whose tables are fs_df and ms
ProcessSymbol ==
    /\ pc = "read"
    /\ pc' = "processed"
    /\ LET g == get_annual_growth(fs_df)
           line == skip_line(g, args)
       IN  \E ms \in MsViews :
             /\ ms_kind' = ms.kind
             /\ IF read_skip(ms.kind) # ""
                THEN /\ reason' = read_skip(ms.kind)
                     /\ growth' = NotCalled
                     /\ results' = results
                     /\ skipped' = skipped \cup {i}
                ELSE /\ growth' = g
                     /\ IF line # ""
                        THEN /\ reason' = line
                             /\ results' = results
                             /\ skipped' = skipped \cup {i}
                        ELSE IF ms.latest = {}                 \* iloc[0]: IndexError
                        THEN /\ reason' = "error during processing"
                             /\ results' = results
                             /\ skipped' = skipped \cup {i}
                        ELSE \E market_cap \in ms.latest :
                               /\ reason' = "accepted"
                               /\ results' = Append(results, result_row(i, g, market_cap))
                               /\ skipped' = skipped
    /\ UNCHANGED <<args, i, fs_df, out>>

\* line 94: the next file of the directory
NextFile ==
    /\ pc = "processed"
    /\ i < NumSymbols
    /\ i' = i + 1
    /\ pc' = "read"
    /\ fs_df' = {}
    /\ ms_kind' = ""
    /\ growth' = NotCalled
    /\ reason' = ""
    /\ UNCHANGED <<args, results, skipped, out>>

\* lines 160-164: sort, then print the first num_result rows
Rank ==
    /\ pc = "processed"
    /\ IF sort_raises(results)
       THEN pc' = "crashed" /\ out' = <<>> /\ results' = results
       ELSE LET sorted == list_sort(results)
                rows == slice_to(sorted, args.num_result)
            IN  /\ results' = sorted
                /\ out' = printable_prefix(rows)
                /\ pc' = IF \E k \in 1..Len(rows) : print_raises(rows[k])
                         THEN "crashed" ELSE "done"
    /\ UNCHANGED <<args, i, fs_df, ms_kind, growth, reason, skipped>>

Next == ReadRow \/ ProcessSymbol \/ NextFile \/ Rank

Spec == Init /\ [][Next]_vars

----------------------------------------------------------------------------
(* One symbol, whose fundamentals may file a quarter more than once *)

NextOne == ReadFiling \/ ProcessSymbol

SpecSymbol == Init /\ [][NextOne]_vars

----------------------------------------------------------------------------
(* The ranking alone, on the collections the loop can leave *)

RankCaps == {Float(1), Float(2), Float(3), NaN, Str}
RankNumResults == 0..(MaxRanked + 1)

\* the row of a symbol accepted on its revenue growth alone
accepted_row(symbol, market_cap) ==
    result_row(symbol,
               [NoData EXCEPT !.kind = "result", !.rev_growths = <<100, 100>>],
               market_cap)

InitRank ==
    /\ args \in { [c EXCEPT !.num_result = n] : c \in Configs, n \in RankNumResults }
    /\ \E n \in 0..MaxRanked :
         \E caps \in [1..n -> RankCaps] :
           /\ results = [k \in 1..n |-> accepted_row(k, caps[k])]
           /\ i = IF n = 0 THEN 1 ELSE n
    /\ pc = "processed"
    /\ fs_df = {}
    /\ ms_kind = ""
    /\ growth = NotCalled
    /\ reason = ""
    /\ skipped = {}
    /\ out = <<>>

SpecRank == InitRank /\ [][Rank]_vars

----------------------------------------------------------------------------
(* Vocabulary of the properties *)

\* the symbols that have a row in results
AcceptedSymbols == { results[k].symbol : k \in 1..Len(results) }

\* the loop body has run for symbol i
Handled == pc # "read"

\* both tables of symbol i were read and get_annual_growth gave a result
Screened == Handled /\ growth.kind = "result"

\* a recent value is not below its floor when it is present
NotBelow(x, limit) == x.t = "float" => x.v >= limit

FloorsPassed ==
    /\ NotBelow(growth.revenue, args.revenue_limit)
    /\ NotBelow(growth.op_margin, args.op_margin_limit)

\* every entry of a growth sequence strictly exceeds the threshold
Exceeds(growths, pct) == \A k \in 1..Len(growths) : growths[k] > pct

RevLen == Len(growth.rev_growths)
OpmLen == Len(growth.opm_growths)

----------------------------------------------------------------------------
(* C1 *)

\* C1, as stated: a symbol that passed the floors and has two revenue growths and
\* fewer than two margin growths (none or one) is accepted iff both revenue
\* growths strictly exceed pergro_revenue; and the same with the metrics swapped.
C1_AvailableMeansTwoEntries ==
    (Screened /\ ms_kind = "table" /\ FloorsPassed) =>
        /\ (RevLen = 2 /\ OpmLen < 2) =>
              (i \in AcceptedSymbols <=> Exceeds(growth.rev_growths, args.pergro_revenue))
        /\ (OpmLen = 2 /\ RevLen < 2) =>
              (i \in AcceptedSymbols <=> Exceeds(growth.opm_growths, args.pergro_op_margin))

\* C1, amended: a symbol that passed the floors and has two revenue growths is
\* accepted iff both exceed pergro_revenue when it has no margin growth, and is
\* rejected when it has exactly one margin growth; and the same with the metrics
\* swapped.
C1_OneMetricAlone ==
    (Screened /\ ms_kind = "table" /\ FloorsPassed) =>
        /\ (RevLen = 2 /\ OpmLen = 0) =>
              (i \in AcceptedSymbols <=> Exceeds(growth.rev_growths, args.pergro_revenue))
        /\ (RevLen = 2 /\ OpmLen = 1) => i \notin AcceptedSymbols
        /\ (OpmLen = 2 /\ RevLen = 0) =>
              (i \in AcceptedSymbols <=> Exceeds(growth.opm_growths, args.pergro_op_margin))
        /\ (OpmLen = 2 /\ RevLen = 1) => i \notin AcceptedSymbols

\* a symbol accepted on its two revenue growths, with no margin growth
C1_Witness ==
    /\ Screened /\ ms_kind = "table" /\ FloorsPassed
    /\ RevLen = 2 /\ OpmLen = 0
    /\ Exceeds(growth.rev_growths, args.pergro_revenue)
    /\ i \in AcceptedSymbols

----------------------------------------------------------------------------
(* C8 *)

\* C8: a symbol with fewer than two revenue growths and fewer than two margin
\* growths is never accepted, whatever the thresholds.
C8_NeitherAvailableRejected ==
    (Screened /\ RevLen < 2 /\ OpmLen < 2) => i \notin AcceptedSymbols

\* a symbol with one growth of each metric, both over their thresholds, above the
\* floors and with a market cap, is rejected
C8_Witness ==
    /\ Screened /\ ms_kind = "table" /\ FloorsPassed
    /\ RevLen = 1 /\ OpmLen = 1
    /\ Exceeds(growth.rev_growths, args.pergro_revenue)
    /\ Exceeds(growth.opm_growths, args.pergro_op_margin)
    /\ i \notin AcceptedSymbols

----------------------------------------------------------------------------
(* C10 *)

\* C10: every accepted row has its two revenue growths both numbers or both
\* missing, its two margin growths likewise, and not all four missing; so has
\* every printed row; and the growth sequences of an accepted symbol have length
\* 0 or 2, one of them 2.
C10_GrowthColumnsPaired ==
    /\ \A k \in 1..Len(results) :
         /\ (results[k].rev_g1.t = "nan") <=> (results[k].rev_g2.t = "nan")
         /\ (results[k].opm_g1.t = "nan") <=> (results[k].opm_g2.t = "nan")
         /\ results[k].rev_g1.t # "nan" \/ results[k].opm_g1.t # "nan"
    /\ \A k \in 1..Len(out) :
         /\ (out[k].rev1 = "NaN") <=> (out[k].rev2 = "NaN")
         /\ (out[k].opm1 = "NaN") <=> (out[k].opm2 = "NaN")
         /\ out[k].rev1 # "NaN" \/ out[k].opm1 # "NaN"
    /\ (Handled /\ i \in AcceptedSymbols) =>
         /\ RevLen \in {0, 2} /\ OpmLen \in {0, 2}
         /\ RevLen = 2 \/ OpmLen = 2

\* a printed row whose revenue growths are missing and whose margin growths are numbers
C10_Witness ==
    \E k \in 1..Len(out) :
        /\ out[k].rev1 = "NaN" /\ out[k].rev2 = "NaN"
        /\ out[k].opm1 # "NaN" /\ out[k].opm2 # "NaN"

----------------------------------------------------------------------------
(* C4 *)

----------------------------------------------------------------------------
(* C6 *)

\* the lines printed for insufficient fundamentals, a floor or a threshold
FundamentalsLines ==
    { "insufficient financial data for comparison",
      "recent revenue < limit", "recent op_margin < limit",
      "both metrics available but one or both failed thresholds",
      "only revenue available and failed threshold",
      "only op_margin available and failed threshold",
      "neither revenue nor op_margin growth data available" }

\* the fundamentals now in fs_df are insufficient
Insufficient == Cardinality(fs_df) < required_quarters

----------------------------------------------------------------------------
(* C3 *)

\* C3: no symbol's data aborts the run: the run never ends in an uncaught error.
C3_RunNeverAborts == pc # "crashed"

----------------------------------------------------------------------------
(* Vocabulary of the properties on one symbol *)

\* get_annual_growth was called on the records of the symbol
Called == Handled /\ growth.kind # "notcalled"

EnoughRecords == Cardinality(fs_df) >= required_quarters

\* no two records share their (year, quarter)
KeysDistinct ==
    \A r, q \in fs_df :
        (year(r.date) = year(q.date) /\ quarter(r.date) = quarter(q.date)) => r = q

\* the records of a (year, quarter)
RecordsAt(y, q) == { r \in fs_df : year(r.date) = y /\ quarter(r.date) = q }
\* the records of the quarter of date d, and of the same quarter a year before
RecordsOf(d) == RecordsAt(year(d), quarter(d))
PriorsOf(d) == RecordsAt(year(d) - 1, quarter(d))

LatestDate(df) == CHOOSE d \in { r.date : r \in df } : \A r \in df : r.date <= d

\* the dates of the two most recent records
Anchor0 == LatestDate(fs_df)
Anchor1 ==
    IF Cardinality({ r \in fs_df : r.date = Anchor0 }) >= 2 THEN Anchor0
    ELSE LatestDate({ r \in fs_df : r.date # Anchor0 })

BothPriorsPresent == PriorsOf(Anchor0) # {} /\ PriorsOf(Anchor1) # {}

\* a key of an anchor or of its prior-year counterpart is shared
SharedAnchorKey ==
    \E d \in {Anchor0, Anchor1} :
        Cardinality(RecordsOf(d)) >= 2 \/ Cardinality(PriorsOf(d)) >= 2

\* the conditions of the two growth entries on an anchor record and its prior
RevenueEntryDue(c, p) ==
    c.revenue.t = "float" /\ p.revenue.t = "float" /\ p.revenue.v # 0
MarginEntryDue(c, p) ==
    /\ c.op_margin.t = "float" /\ p.op_margin.t = "float"
    /\ c.op_margin.v > 0 /\ p.op_margin.v > 0

\* the anchors whose records all / some meet a condition
AnchorsAll(Due(_, _)) ==
    Cardinality({ n \in {0, 1} :
        LET d == IF n = 0 THEN Anchor0 ELSE Anchor1
        IN  \A c \in RecordsOf(d), p \in PriorsOf(d) : Due(c, p) })
AnchorsSome(Due(_, _)) ==
    Cardinality({ n \in {0, 1} :
        LET d == IF n = 0 THEN Anchor0 ELSE Anchor1
        IN  \E c \in RecordsOf(d), p \in PriorsOf(d) : Due(c, p) })

----------------------------------------------------------------------------
(* C2 *)

\* C2, as stated: for a symbol with at least 2 records, one of whose two anchors
\* has no prior-year record, get_annual_growth returns NoData (no growth entry,
\* no recent value) and the symbol is skipped.
C2_MissingPriorIsNoData ==
    (Called /\ EnoughRecords /\ ~BothPriorsPresent) =>
        /\ growth = NoData
        /\ i \in skipped /\ i \notin AcceptedSymbols

\* C2, amended: for a symbol with at least 2 records, one of whose two anchors
\* has no prior-year record, get_annual_growth returns NoData when the first
\* anchor's prior-year record is the absent one or when no two records share a
\* (year, quarter); when records share a key and only the second anchor's
\* prior-year record is absent, it raises an error instead.  Either way no growth
\* entry and no recent value is returned and the symbol is skipped, for every
\* configuration.
C2_MissingPriorNoResult ==
    (Handled /\ EnoughRecords /\ ~BothPriorsPresent) =>
        /\ i \in skipped /\ i \notin AcceptedSymbols
        /\ Called =>
             /\ growth.rev_growths = <<>> /\ growth.opm_growths = <<>>
             /\ growth.revenue = NaN /\ growth.op_margin = NaN
             /\ IF KeysDistinct \/ PriorsOf(Anchor0) = {}
                THEN /\ growth.kind = "nodata"
                     /\ reason = "insufficient financial data for comparison"
                ELSE /\ growth.kind = "ValueError"
                     /\ reason = "error during processing"

\* distinct keys, the first anchor has a prior-year record with which both growths
\* could be computed, the second anchor has none: NoData
C2_Witness ==
    /\ Called /\ EnoughRecords /\ KeysDistinct
    /\ PriorsOf(Anchor1) = {}
    /\ \E c \in RecordsOf(Anchor0), p \in PriorsOf(Anchor0) :
           RevenueEntryDue(c, p) /\ MarginEntryDue(c, p)
    /\ growth = NoData
    /\ i \in skipped

----------------------------------------------------------------------------
(* C7 *)

\* C7, as stated: when both anchors have their prior-year record, each anchor
\* adds a revenue growth iff its revenue and the prior-year revenue are present
\* and the prior one is not 0, and a margin growth iff its margin and the
\* prior-year margin are present and strictly positive, each independently of the
\* other: there are at least as many entries of a metric as anchors with
\* the condition met by all their records, and at most as many as anchors with the
\* condition met by some.
C7_EntriesFollowConditions ==
    (Called /\ EnoughRecords /\ BothPriorsPresent) =>
        /\ AnchorsAll(RevenueEntryDue) <= RevLen
        /\ RevLen <= AnchorsSome(RevenueEntryDue)
        /\ AnchorsAll(MarginEntryDue) <= OpmLen
        /\ OpmLen <= AnchorsSome(MarginEntryDue)

\* the growth of an anchor's value over the prior-year value, in percent
GrowthOver(c, p) == (100 * (c - p)) \div (IF p < 0 THEN -p ELSE p)

\* the growth entries due for the anchor of date d (keys distinct)
RevenueDue(d) ==
    LET c == CHOOSE r \in RecordsOf(d) : TRUE
        p == CHOOSE r \in PriorsOf(d) : TRUE
    IN  IF RevenueEntryDue(c, p) THEN <<GrowthOver(c.revenue.v, p.revenue.v)>> ELSE <<>>
MarginDue(d) ==
    LET c == CHOOSE r \in RecordsOf(d) : TRUE
        p == CHOOSE r \in PriorsOf(d) : TRUE
    IN  IF MarginEntryDue(c, p) THEN <<GrowthOver(c.op_margin.v, p.op_margin.v)>> ELSE <<>>

\* C7, amended: when no two records of the symbol share a (year, quarter) and both
\* anchors have their prior-year record, each anchor, most recent first, adds a
\* revenue growth iff its revenue and the prior-year revenue are present and the
\* prior one is not 0, and a margin growth iff its margin and the prior-year
\* margin are present and strictly positive, each independently of the other.
C7_EntriesFollowConditionsDistinct ==
    (Called /\ EnoughRecords /\ BothPriorsPresent /\ KeysDistinct) =>
        /\ growth.kind = "result"
        /\ growth.rev_growths = RevenueDue(Anchor0) \o RevenueDue(Anchor1)
        /\ growth.opm_growths = MarginDue(Anchor0) \o MarginDue(Anchor1)

\* the first anchor adds a revenue growth and no margin growth, the second a margin
\* growth and no revenue growth
C7_Witness ==
    /\ Called /\ EnoughRecords /\ BothPriorsPresent /\ KeysDistinct
    /\ RevenueDue(Anchor0) # <<>> /\ MarginDue(Anchor0) = <<>>
    /\ RevenueDue(Anchor1) = <<>> /\ MarginDue(Anchor1) # <<>>
    /\ RevLen = 1 /\ OpmLen = 1

----------------------------------------------------------------------------
(* C9 *)

\* C9, as stated: when records share the key of an anchor or of its prior-year
\* counterpart, the lookup resolves to one record, growth is computed from it and
\* the symbol goes on to the floors and thresholds like any other.
C9_LastWins ==
    (Called /\ EnoughRecords /\ BothPriorsPresent /\ SharedAnchorKey) =>
        /\ growth.kind = "result"
        /\ reason \in (FundamentalsLines \ {"insufficient financial data for comparison"})
                         \cup {"accepted", "error during processing"}

\* C9, amended: when records share the key of an anchor or of its prior-year
\* counterpart, records are not deduplicated and the lookup returns all the records
\* of the key, not one: when the first anchor has a prior-year record the growth
\* conditions raise an error on it, no growth is computed and the symbol is skipped
\* with "error during processing" without reaching the floors and thresholds; when
\* it has none the symbol is skipped for insufficient data.
C9_SharedKeyRaises ==
    (Called /\ EnoughRecords /\ SharedAnchorKey) =>
        /\ i \in skipped /\ i \notin AcceptedSymbols
        /\ growth.rev_growths = <<>> /\ growth.opm_growths = <<>>
        /\ IF PriorsOf(Anchor0) # {}
           THEN growth.kind = "ValueError" /\ reason = "error during processing"
           ELSE growth.kind = "nodata"
                  /\ reason = "insufficient financial data for comparison"

\* two records share the key of the first anchor, both anchors have a prior-year
\* record, and the symbol was skipped on the error
C9_Witness ==
    /\ Called /\ EnoughRecords /\ BothPriorsPresent
    /\ Cardinality(RecordsOf(Anchor0)) >= 2
    /\ growth.kind = "ValueError"
    /\ reason = "error during processing"
    /\ i \in skipped

----------------------------------------------------------------------------
(* C5 *)

MinOf(a, b) == IF a < b THEN a ELSE b

\* C5: when the table has been printed, its rows are the first
\* min(num_result, number of accepted rows) rows of results, no printed row has a
\* market cap strictly greater than that of a row after it (printed or not), and
\* of two rows of equal market cap the one accepted first comes first (the symbols
\* were accepted in the order of their numbers).
C5_RankedAscendingStableTruncated ==
    pc = "done" =>
        /\ Len(out) = MinOf(args.num_result, Len(results))
        /\ \A k \in 1..Len(out) : out[k].symbol = results[k].symbol
        /\ \A k \in 1..Len(out) : \A j \in 1..Len(results) :
             k < j => ~lt(results[j].market_cap, results[k].market_cap)
        /\ \A k \in 1..Len(out) : \A j \in 1..Len(results) :
             (k < j /\ results[k].market_cap.t = "float"
                    /\ results[k].market_cap = results[j].market_cap)
                 => results[k].symbol < results[j].symbol

====
